---- MODULE Spec2Model ----
(***************************************************************************)
(* loadingbar: the Display implementation of Bar (src/src/lib.rs).         *)
(*                                                                         *)
(* A string (&str, String) is a sequence of characters; a character is a   *)
(* one-element TLA+ string, a non-ASCII one written by its code point      *)
(* ("U+2588") and the escape character written "ESC".  A Vec<&str> is a    *)
(* sequence of such sequences.                                             *)
(*                                                                         *)
(* An f32 is a record [nan, neg, m, e] standing for (-1)^neg * m / 2^e     *)
(* with m < 2^24 (24 bits of significand), or a NaN.  Products are rounded *)
(* to 24 significant bits, ties to even, as the hardware does.  Infinities *)
(* and subnormals are outside the inputs drawn here.                       *)
(***************************************************************************)
EXTENDS Integers, Sequences, FiniteSets, TLC

VARIABLES
    bar,              \* the caller's Bar: [progress, rtl, width]
    term,             \* what termsize::get() answers now: Option<cols>
    overflow_checks,  \* the build: TRUE debug (overflow panics), FALSE release
    out,              \* the last call of fmt: its inputs, locals and result
    kept              \* an earlier call of fmt the caller kept to compare

vars == <<bar, term, overflow_checks, out, kept>>

(***************************** bounds **************************************)
\* width overrides are drawn from 0..MaxWidth
MaxWidth == 9
\* terminal column counts are drawn from 0..MaxCols
MaxCols == 9

(***************************** constants ***********************************)
TI == <<"U+27F3", " ">>
TC == <<"U+2713", " ">>
CL == <<"[">>
CR == <<"]">>
PI == <<"U+2592">>
PC == <<"U+2588">>
LE == <<"ESC", "[", "1", "F">>
RTL == FALSE
DEFAULT_WIDTH == 80
MIN_WIDTH == 7

(***************************** Option<usize> *******************************)
None == [some |-> FALSE, v |-> 0]
Some(n) == [some |-> TRUE, v |-> n]

WIDTH == Some(DEFAULT_WIDTH)

(***************************** f32 *****************************************)
F32(neg, m, e) == [nan |-> FALSE, neg |-> neg, m |-> m, e |-> e]
NaN == [nan |-> TRUE, neg |-> FALSE, m |-> 0, e |-> 0]

PROGRESS == F32(FALSE, 0, 0)

RECURSIVE Pow2(_)
Pow2(k) == IF k = 0 THEN 1 ELSE 2 * Pow2(k - 1)

\* number of binary digits of x
RECURSIVE BitLen(_)
BitLen(x) == IF x = 0 THEN 0 ELSE 1 + BitLen(x \div 2)

\* (n as f32) * p for an integer 0 <= n < 2^24 (exactly representable):
\* the exact product n*m / 2^e rounded to 24 significant bits, ties to even
F32Mul(n, p) ==
    IF p.nan THEN NaN
    ELSE LET prod  == n * p.m
             shift == IF BitLen(prod) > 24 THEN BitLen(prod) - 24 ELSE 0
             q     == prod \div Pow2(shift)
             r     == prod % Pow2(shift)
             up    == shift > 0 /\ (2 * r > Pow2(shift)
                                    \/ (2 * r = Pow2(shift) /\ q % 2 = 1))
             sig   == IF up THEN q + 1 ELSE q
         IN IF shift <= p.e
            THEN F32(p.neg, sig, p.e - shift)
            ELSE F32(p.neg, sig * Pow2(shift - p.e), 0)

\* f32::floor
F32Floor(x) ==
    IF x.nan THEN NaN
    ELSE LET d == Pow2(x.e)
         IN IF x.neg /\ x.m % d # 0
            THEN F32(TRUE, x.m \div d + 1, 0)
            ELSE F32(x.neg, x.m \div d, 0)

\* `as usize`: a saturating cast, NaN and negative values give 0
AsUsize(x) ==
    IF x.nan \/ x.neg THEN 0 ELSE x.m \div Pow2(x.e)

(***************************** strings *************************************)
Digit(d) == <<"0", "1", "2", "3", "4", "5", "6", "7", "8", "9">>[d + 1]

\* format!("{}", n) for a usize
RECURSIVE FormatUsize(_)
FormatUsize(n) ==
    IF n < 10 THEN <<Digit(n)>>
    ELSE FormatUsize(n \div 10) \o <<Digit(n % 10)>>

\* Vec::reverse
Reverse(s) == [j \in 1..Len(s) |-> s[Len(s) + 1 - j]]

\* [&str]::join("")
RECURSIVE Join(_)
Join(comps) ==
    IF comps = <<>> THEN <<>> ELSE Head(comps) \o Join(Tail(comps))

\* `for _ in 0..k { v.push(s) }` on an empty tail
Repeat(s, k) == [j \in 1..k |-> s]

(***************************** Bar *****************************************)
\* Bar::new
New(progress, rtl, width) ==
    [progress |-> progress, rtl |-> rtl, width |-> width]

\* impl From<bool> for Bar
FromBool(rtl) ==
    [progress |-> PROGRESS, rtl |-> rtl, width |-> WIDTH]

\* impl From<f32> for Bar
FromF32(progress) ==
    [progress |-> progress, rtl |-> RTL, width |-> WIDTH]

(***************************** fmt *****************************************)
\* ResolveSize with the fallback Size { rows: 0, cols: 0 } instead of
\* cols: DEFAULT_WIDTH
ResolveSizeZeroDefault(width, t) ==
    IF width.some THEN width.v
    ELSE LET cols == IF t.some THEN t.v ELSE 0
         IN IF cols \in 0..MIN_WIDTH THEN MIN_WIDTH ELSE cols

\* "work out the size we have to work with"
ResolveSize(width, t) ==
    IF width.some THEN width.v
    ELSE LET cols == IF t.some THEN t.v ELSE DEFAULT_WIDTH
         IN IF cols \in 0..MIN_WIDTH THEN MIN_WIDTH ELSE cols

\* format!("{}%", (self.progress * 100.0).floor() as usize)
Percent(progress) ==
    FormatUsize(AsUsize(F32Floor(F32Mul(100, progress)))) \o <<"%">>

\* Indicator as a numeric threshold (three digits or more: 100 and above)
\* instead of the match on "100%"
IndicatorThreshold(percent) ==
    IF Len(percent) >= 4 THEN TC ELSE TI

\* match &percent { "100%" => TC, _ => TI }
Indicator(percent) ==
    IF percent = <<"1", "0", "0", "%">> THEN TC ELSE TI

\* CompleteCells over size - 3 cells instead of size - 4
CompleteCellsReserve3(size, progress) ==
    AsUsize(F32Floor(F32Mul(size - 3, progress)))

\* c: ((size - 4) as f32 * self.progress).floor() as usize, for size >= 4
CompleteCells(size, progress) ==
    AsUsize(F32Floor(F32Mul(size - 4, progress)))

\* Progress without the `size == 5` branch
ProgressNoShrink(size, progress, percent) ==
    IF size < 4
    THEN [fault |-> TRUE, vec |-> <<>>]
    ELSE LET c == CompleteCells(size, progress)
         IN IF c > size - 4
            THEN [fault |-> TRUE, vec |-> <<>>]
            ELSE [fault |-> FALSE,
                  vec |-> <<CL>> \o Repeat(PC, c)
                          \o Repeat(PI, (size - 4) - c) \o <<CR>>]

\* The `progress` vector, CL to CR.  size - 4 and (size - 4) - c are usize
\* subtractions: below zero they panic in a build with overflow checks and
\* wrap to 2^64 - k in one without, where a push loop of at least 2^63
\* rounds then exhausts memory.  Either way fmt does not return: fault.
Progress(size, progress, percent) ==
    IF size = 5
    THEN [fault |-> FALSE, vec |-> <<CL, percent, CR>>]
    ELSE IF size < 4
    THEN [fault |-> TRUE, vec |-> <<>>]
    ELSE LET c == CompleteCells(size, progress)
         IN IF c > size - 4
            THEN [fault |-> TRUE, vec |-> <<>>]
            ELSE [fault |-> FALSE,
                  vec |-> <<CL>> \o Repeat(PC, c)
                          \o Repeat(PI, (size - 4) - c) \o <<CR>>]

\* Components with the outer reversal only
ComponentsOneReverse(indicator, progress, rtl) ==
    LET all   == <<indicator>> \o progress
        outer == IF rtl THEN Reverse(all) ELSE all
    IN Append(outer, LE)

\* components: the indicator, the progress vector (reversed when rtl), all
\* of it reversed when rtl, then the line end
Components(indicator, progress, rtl) ==
    LET inner == IF rtl THEN Reverse(progress) ELSE progress
        all   == <<indicator>> \o inner
        outer == IF rtl THEN Reverse(all) ELSE all
    IN Append(outer, LE)

\* One call of <Bar as Display>::fmt with termsize::get() answering t, in a
\* build with (oc) or without overflow checks: the inputs, the locals
\* computed before the vector is built, and the result.
Render(b, t, oc) ==
    LET size      == ResolveSize(b.width, t)
        percent   == Percent(b.progress)
        indicator == Indicator(percent)
        progress  == Progress(size, b.progress, percent)
    IN [bar |-> b, term |-> t, size |-> size, percent |-> percent,
        indicator |-> indicator,
        status |-> IF ~progress.fault THEN "ok"
                   ELSE IF oc THEN "panic" ELSE "alloc_failure",
        text |-> IF progress.fault THEN <<>>
                 ELSE Join(Components(indicator, progress.vec, b.rtl))]

\* no call of fmt yet
NoOut ==
    [bar |-> FromBool(RTL), term |-> None, size |-> 0, percent |-> <<>>,
     indicator |-> <<>>, status |-> "none", text |-> <<>>]

(***************************** inputs **************************************)
P_zero     == F32(FALSE, 0, 0)
P_029      == F32(FALSE, 9730785, 25)     \* 0.29f32
P_half     == F32(FALSE, 1, 1)
P_07       == F32(FALSE, 11744051, 24)    \* 0.7f32
P_08       == F32(FALSE, 13421773, 24)    \* 0.8f32
P_below1   == F32(FALSE, 16777215, 24)    \* the largest f32 below 1.0
P_one      == F32(FALSE, 1, 0)
P_above1   == F32(FALSE, 8388609, 23)     \* the smallest f32 above 1.0
P_1005     == F32(FALSE, 8430551, 23)     \* 1.005f32
P_101      == F32(FALSE, 8472494, 23)     \* 1.01f32
P_15       == F32(FALSE, 3, 1)            \* 1.5
P_neg      == F32(TRUE, 1, 1)             \* -0.5

ProgressValues ==
    {P_zero, P_029, P_half, P_07, P_08, P_below1, P_one, P_above1, P_1005,
     P_101, P_15, P_neg, NaN}

WidthValues == {None} \cup {Some(n) : n \in 0..MaxWidth}

TermValues == {None} \cup {Some(n) : n \in 0..MaxCols}

(***************************** one render **********************************)
\* the state after construction, by any of the three constructors
Init ==
    /\ bar \in {New(p, r, w) : p \in ProgressValues, r \in BOOLEAN,
                               w \in WidthValues}
               \cup {FromBool(r) : r \in BOOLEAN}
               \cup {FromF32(p) : p \in ProgressValues}
    /\ term \in TermValues
    /\ overflow_checks \in BOOLEAN
    /\ out = NoOut
    /\ kept = NoOut

\* Fmt writing into a buffer that is not cleared between calls
FmtAppend ==
    /\ out' = [Render(bar, term, overflow_checks) EXCEPT
                  !.text = out.text \o @]
    /\ UNCHANGED <<bar, term, overflow_checks, kept>>

\* format!("{}", bar)
Fmt ==
    /\ out' = Render(bar, term, overflow_checks)
    /\ UNCHANGED <<bar, term, overflow_checks, kept>>

Next == Fmt

Spec == Init /\ [][Next]_vars

(***************************** a session ***********************************)
SessionProgress == {P_half, P_one}

SessionWidths == {None, Some(5), Some(MaxWidth)}

SessionTerms == {None, Some(MIN_WIDTH - 1), Some(MaxCols)}

SessionInit ==
    /\ bar \in {New(p, r, w) : p \in SessionProgress, r \in BOOLEAN,
                               w \in SessionWidths}
    /\ term \in SessionTerms
    /\ overflow_checks \in BOOLEAN
    /\ out = NoOut
    /\ kept = NoOut

\* bar.progress = p
SetProgress ==
    /\ \E p \in SessionProgress : bar' = [bar EXCEPT !.progress = p]
    /\ UNCHANGED <<term, overflow_checks, out, kept>>

\* bar.rtl = r
SetRtl ==
    /\ \E r \in BOOLEAN : bar' = [bar EXCEPT !.rtl = r]
    /\ UNCHANGED <<term, overflow_checks, out, kept>>

\* bar.width = w
SetWidth ==
    /\ \E w \in SessionWidths : bar' = [bar EXCEPT !.width = w]
    /\ UNCHANGED <<term, overflow_checks, out, kept>>

\* the terminal is resized, or attached or detached: termsize::get()
\* answers something else from now on
Resize ==
    /\ \E t \in SessionTerms : term' = t
    /\ UNCHANGED <<bar, overflow_checks, out, kept>>

\* the caller keeps the string it got, to compare a later one with
Keep ==
    /\ out.status # "none"
    /\ kept' = out
    /\ UNCHANGED <<bar, term, overflow_checks, out>>

SessionNext ==
    \/ SetProgress
    \/ SetRtl
    \/ SetWidth
    \/ Resize
    \/ Fmt
    \/ Keep

SpecSession == SessionInit /\ [][SessionNext]_vars

(***************************** reading a render ****************************)
Rendered == out.status # "none"

\* how often character ch occurs in string s
Count(s, ch) == Cardinality({j \in 1..Len(s) : s[j] = ch})

\* the first place of ch in s (0: none)
FirstIndex(s, ch) ==
    IF \E j \in 1..Len(s) : s[j] = ch
    THEN CHOOSE j \in 1..Len(s) : s[j] = ch /\ \A k \in 1..(j - 1) : s[k] # ch
    ELSE 0

\* what stands between the first "[" and the first "]" of a render
Between(text) ==
    SubSeq(text, FirstIndex(text, "[") + 1, FirstIndex(text, "]") - 1)

\* the render without its last four characters
Visible(text) == SubSeq(text, 1, Len(text) - 4)

\* the last four characters of a render
Ending(text) == SubSeq(text, Len(text) - 3, Len(text))

\* k times the character ch
Run(ch, k) == [j \in 1..k |-> ch]

\* the render shows indicator ind: in front when ltr, behind "]" when rtl
Shows(o, ind) ==
    /\ Len(o.text) >= 8
    /\ IF o.bar.rtl
       THEN SubSeq(o.text, Len(o.text) - 5, Len(o.text) - 4) = ind
       ELSE SubSeq(o.text, 1, 2) = ind

\* the value of a string of decimal digits
RECURSIVE ParseDigits(_)
ParseDigits(ds) ==
    IF ds = <<>> THEN 0
    ELSE 10 * ParseDigits(SubSeq(ds, 1, Len(ds) - 1))
         + (CHOOSE d \in 0..9 : Digit(d) = ds[Len(ds)])

\* a decimal numeral as format!("{}") writes it: digits, no leading zero
IsNumeral(ds) ==
    /\ Len(ds) >= 1
    /\ \A j \in 1..Len(ds) : \E d \in 0..9 : Digit(d) = ds[j]
    /\ Len(ds) > 1 => ds[1] # "0"

\* progress is a number in [0, 1), is 1.0, is a number in [0, 1]
BelowOne(p) == ~p.nan /\ (~p.neg \/ p.m = 0) /\ p.m < Pow2(p.e)
IsOne(p) == ~p.nan /\ ~p.neg /\ p.m = Pow2(p.e)
InUnit(p) == BelowOne(p) \/ IsOne(p)

\* k is the floor of the non-negative f32 x: k <= x < k + 1
IsFloorOf(k, x) ==
    /\ ~x.nan
    /\ k * Pow2(x.e) <= x.m
    /\ x.m < (k + 1) * Pow2(x.e)

(***************************** claims **************************************)
\* C1: for every progress in [0,1) and every width override w >= 6, fmt
\* returns, and between the brackets stand c complete cells followed by i
\* incomplete cells with c + i = w - 4 and c the floor of the f32 product
\* (w - 4) * progress.
C1_FillCells ==
    (/\ Rendered
     /\ out.bar.width.some
     /\ out.bar.width.v >= 6
     /\ BelowOne(out.bar.progress))
    => /\ out.status = "ok"
       /\ LET n     == out.bar.width.v - 4
              cells == Between(out.text)
              c     == Count(cells, PC[1])
              i     == Count(cells, PI[1])
          IN /\ cells = Run(PC[1], c) \o Run(PI[1], i)
             /\ c + i = n
             /\ IsFloorOf(c, F32Mul(n, out.bar.progress))

\* C1 happens: a render at a width >= 6 of a progress in (0,1) whose
\* product is rounded (0.7f32) shows complete and incomplete cells
C1_Witness ==
    /\ out.status = "ok"
    /\ out.bar.width.some
    /\ out.bar.width.v >= 6
    /\ out.bar.progress = P_07
    /\ Count(Between(out.text), PC[1]) >= 2
    /\ Count(Between(out.text), PI[1]) >= 1

\* the render of the same bar with rtl off, same terminal, same build
LtrOf(o) == Render([o.bar EXCEPT !.rtl = FALSE], o.term, overflow_checks)

\* text is indicator + "[" + fillseq + "]" + line end
Decomposable(text) ==
    /\ Len(text) >= 8
    /\ SubSeq(text, 1, 2) \in {TI, TC}
    /\ text[3] = "["
    /\ text[Len(text) - 4] = "]"
    /\ Ending(text) = LE

FillSeq(text) == SubSeq(text, 4, Len(text) - 5)

\* C2 as stated: if the non-RTL render is indicator + "[" + fillseq + "]" +
\* line end, the RTL render of the same progress and width is
\* "[" + reverse(fillseq) + "]" + indicator + line end.
C2_Mirror_Original ==
    (/\ Rendered
     /\ out.bar.rtl
     /\ LtrOf(out).status = "ok"
     /\ Decomposable(LtrOf(out).text))
    => out.text = <<"[">> \o Reverse(FillSeq(LtrOf(out).text)) \o <<"]">>
                  \o SubSeq(LtrOf(out).text, 1, 2) \o LE

\* C2 amended: if the non-RTL render is indicator + "[" + fillseq + "]" +
\* line end, the RTL render of the same progress and width is
\* "[" + fillseq + "]" + indicator + line end: the fill keeps its order.
C2_Mirror_Amended ==
    (/\ Rendered
     /\ out.bar.rtl
     /\ LtrOf(out).status = "ok"
     /\ Decomposable(LtrOf(out).text))
    => /\ out.status = "ok"
       /\ out.text = <<"[">> \o FillSeq(LtrOf(out).text) \o <<"]">>
                     \o SubSeq(LtrOf(out).text, 1, 2) \o LE

\* C2 happens: an rtl render with both kinds of cell between the brackets
C2_Witness ==
    /\ out.status = "ok"
    /\ out.bar.rtl
    /\ Decomposable(LtrOf(out).text)
    /\ Count(out.text, PC[1]) >= 1
    /\ Count(out.text, PI[1]) >= 1

\* C3: fmt never fails: every call returns a string, whatever the width
\* override and the progress.
C3_NeverFails == out.status \in {"none", "ok"}

\* C4: for every width and rtl, progress 1.0 renders the completion
\* indicator and every progress in [0, 1) renders the in-progress one.
C4_Indicator ==
    Rendered =>
        /\ IsOne(out.bar.progress) =>
               (out.status = "ok" /\ Shows(out, TC))
        /\ BelowOne(out.bar.progress) =>
               (out.status = "ok" /\ Shows(out, TI))

\* C4 on the calls of fmt that return: the indicator shown is the one C4
\* names.
C4_IndicatorWhereReturned ==
    out.status = "ok" =>
        /\ IsOne(out.bar.progress) => Shows(out, TC)
        /\ BelowOne(out.bar.progress) => Shows(out, TI)

\* C5: with the width override 5 and progress in [0,1], fmt returns
\* indicator + "[" + percent + "]" + line end (ltr) or
\* "[" + percent + "]" + indicator + line end (rtl), percent the decimal
\* numeral of the floor of the f32 product progress * 100 followed by "%",
\* and no fill glyph.
C5_PercentOnly ==
    (/\ Rendered
     /\ out.bar.width = Some(5)
     /\ InUnit(out.bar.progress))
    => /\ out.status = "ok"
       /\ Count(out.text, PC[1]) = 0
       /\ Count(out.text, PI[1]) = 0
       /\ LET ind  == IF IsOne(out.bar.progress) THEN TC ELSE TI
              body == Between(out.text)
              num  == SubSeq(body, 1, Len(body) - 1)
          IN /\ Len(body) >= 2
             /\ body[Len(body)] = "%"
             /\ IsNumeral(num)
             /\ IsFloorOf(ParseDigits(num), F32Mul(100, out.bar.progress))
             /\ out.text = IF out.bar.rtl
                           THEN <<"[">> \o body \o <<"]">> \o ind \o LE
                           ELSE ind \o <<"[">> \o body \o <<"]">> \o LE

\* C5 happens: a render at width 5 of 0.8 (the test new_rtl_5_i)
C5_Witness ==
    /\ out.status = "ok"
    /\ out.bar = New(P_08, TRUE, Some(5))
    /\ Between(out.text) = <<"8", "0", "%">>

\* the width C6 names for a terminal answer t
QueriedWidth(t) ==
    IF ~t.some THEN 80
    ELSE IF t.v >= 0 /\ t.v <= 7 THEN 7
    ELSE t.v

\* C6: without a width override, fmt does what it does for the same bar
\* with the explicit width W (80: terminal unknown; 7: 0..7 columns; else
\* the columns); an explicit override is the size as it is, never clamped.
C6_DynamicWidth ==
    Rendered =>
        IF out.bar.width.some
        THEN out.size = out.bar.width.v
        ELSE LET W        == QueriedWidth(out.term)
                 explicit == Render([out.bar EXCEPT !.width = Some(W)],
                                    out.term, overflow_checks)
             IN /\ out.size = W
                /\ out.status = explicit.status
                /\ out.text = explicit.text

\* C6 happens: a render without override on an unknown terminal fills 80
\* columns
C6_Witness ==
    /\ out.status = "ok"
    /\ ~out.bar.width.some
    /\ ~out.term.some
    /\ Len(Visible(out.text)) = 80

\* C6 happens: a render without override on a terminal of 3 columns fills 7
C6_WitnessClamp ==
    /\ out.status = "ok"
    /\ ~out.bar.width.some
    /\ out.term = Some(3)
    /\ Len(Visible(out.text)) = 7

C8_LineEnd ==
    Rendered =>
        /\ out.status = "ok"
        /\ Len(out.text) >= 4
        /\ Ending(out.text) = LE
        /\ Count(out.text, "ESC") = 1
        /\ Count(out.text, "\n") = 0

\* C8 on the calls of fmt that return
C8_LineEndWhereReturned ==
    out.status = "ok" =>
        /\ Len(out.text) >= 4
        /\ Ending(out.text) = LE
        /\ Count(out.text, "ESC") = 1
        /\ Count(out.text, "\n") = 0

\* progress is a number >= 1.0, is a number < 1.0
AtLeastOne(p) == ~p.nan /\ ~p.neg /\ p.m >= Pow2(p.e)
LessThanOne(p) == ~p.nan /\ ((p.neg /\ p.m > 0) \/ p.m < Pow2(p.e))

\* the f32 product progress * 100 lies in [100, 101)
HundredAndABit(p) ==
    LET x == F32Mul(100, p)
    IN /\ ~x.nan
       /\ ~x.neg
       /\ x.e <= 17
       /\ 100 * Pow2(x.e) <= x.m
       /\ x.m < 101 * Pow2(x.e)

\* C9 as stated: every progress >= 1.0 formats to "100%" and gets the
\* completion indicator; no progress < 1.0 does.
C9_Completion_Original ==
    Rendered =>
        /\ AtLeastOne(out.bar.progress) =>
               (out.percent = <<"1", "0", "0", "%">> /\ out.indicator = TC)
        /\ LessThanOne(out.bar.progress) =>
               (out.percent # <<"1", "0", "0", "%">> /\ out.indicator = TI)

\* C9 amended: a progress formats to "100%", and gets the completion
\* indicator, exactly when the f32 product progress * 100 lies in
\* [100, 101); a larger one (1.5: "150%") gets the in-progress indicator,
\* as does every progress < 1.0; a call that returns shows the indicator
\* chosen.
C9_Completion_Amended ==
    Rendered =>
        /\ out.percent = <<"1", "0", "0", "%">>
               <=> HundredAndABit(out.bar.progress)
        /\ out.indicator = TC <=> HundredAndABit(out.bar.progress)
        /\ out.indicator \in {TC, TI}
        /\ LessThanOne(out.bar.progress) => out.indicator = TI
        /\ out.status = "ok" => Shows(out, out.indicator)

\* C9 happens: a progress above 1.0 rendered as complete
C9_Witness ==
    /\ out.status = "ok"
    /\ out.bar.progress = P_1005
    /\ Shows(out, TC)

\* C9 happens: a progress above 1.0 rendered as in progress
C9_WitnessAbove ==
    /\ out.status = "ok"
    /\ out.bar.progress = P_15
    /\ Shows(out, TI)

\* C10: for every progress in [0,1], rtl and effective width w >= 5, the
\* render without its line end is exactly w characters long.
C10_FillsWidth ==
    (/\ Rendered
     /\ InUnit(out.bar.progress)
     /\ out.size >= 5)
    => /\ out.status = "ok"
       /\ Len(Visible(out.text)) = out.size

\* C10 from width 6 on
C10_FillsWidthFromSix ==
    (/\ Rendered
     /\ InUnit(out.bar.progress)
     /\ out.size >= 6)
    => /\ out.status = "ok"
       /\ Len(Visible(out.text)) = out.size

====
